---- MODULE Spec2Model ----
(***************************************************************************)
(* Hybrid search of zotero-core: HybridSearchService.search() over the     *)
(* keyword adapter (SearchService.search_items) and the semantic           *)
(* collaborator, with Reciprocal Rank Fusion.                              *)
(*                                                                         *)
(* One search() call is followed from the call to its outcome; the steps   *)
(* are the stretches of code between two awaits.  Scores are Python floats *)
(* in the code; here they are exact rationals <<n, d>> with d > 0 in       *)
(* lowest terms, and None is the empty tuple <<>>.                         *)
(***************************************************************************)
EXTENDS Integers, Sequences, FiniteSets, TLC

\* ---------------------------------------------------------------- bounds
MaxKw == 3        \* longest list the keyword client returns
MaxSem == 2       \* longest list the semantic collaborator returns
MaxTopK == 3      \* largest top_k a caller passes
MaxRaw == 3       \* longest list client.search_items returns to a direct call
MaxTags == 3      \* longest list client.get_tags returns
MaxLimit == 2     \* largest limit of a direct adapter call
MaxRow == 2
MaxColls == 2         \* collections get_sorted_collections returns
MaxScanLimit == 2     \* scan_limit
MaxTreated == 3       \* treated_limit
MaxItems == 4         \* items in one collection       \* longest result row of the vector store

\* ---------------------------------------------------------------- inputs
Keys == {"A", "B", "C"}
NoKey == "<missing>"            \* a record without the mandatory key field
RrfKs == {-3, 0, 1}             \* values of the rrf_k constructor argument
TopKs == 0..MaxTopK
Modes == {"keyword", "semantic", "hybrid"}

None == <<>>

\* ------------------------------------------------------------- rationals
Abs(x) == IF x < 0 THEN -x ELSE x

RECURSIVE GCD(_, _)
GCD(a, b) == IF b = 0 THEN a ELSE GCD(b, a % b)

\* n/d for d # 0, in lowest terms with a positive denominator
Ratio(n, d) ==
    LET g == GCD(Abs(n), Abs(d))
        s == IF d < 0 THEN -1 ELSE 1
    IN <<(s * n) \div g, (s * d) \div g>>

Zero == <<0, 1>>
RAdd(a, b) == Ratio(a[1] * b[2] + b[1] * a[2], a[2] * b[2])
RGt(a, b) == a[1] * b[2] > b[1] * a[2]
RGe(a, b) == a[1] * b[2] >= b[1] * a[2]

\* the similarity the vector store reports for a document under the query
\* of this call (score = 1 - distance, a value in [-1, 1])
SimilarityOf(key) ==
    CASE key = "A" -> Ratio(9, 10)
      [] key = "B" -> Ratio(17, 20)
      [] key = "C" -> Ratio(-1, 4)
      [] OTHER -> Zero

\* ----------------------------------------------------- upstream responses
RECURSIVE SeqsUpTo(_, _)
SeqsUpTo(S, n) ==
    IF n = 0 THEN {<<>>}
    ELSE LET shorter == SeqsUpTo(S, n - 1)
         IN shorter \cup {Append(s, x) : s \in {t \in shorter : Len(t) = n - 1}, x \in S}

\* raw records of client.search_items: a record has a key or lacks it
KeywordRecords == [key : Keys \cup {NoKey}, title : {"kw-title"}]
\* result dicts of semantic_search.search
SemanticRecords ==
    {[key |-> k, score |-> SimilarityOf(k), title |-> "sem-title", document |-> "doc"] :
        k \in Keys \cup {NoKey}}

KeywordResponses == SeqsUpTo(KeywordRecords, MaxKw)
SemanticResponses == SeqsUpTo(SemanticRecords, MaxSem)

VARIABLES
    semantic_search,   \* TRUE iff a semantic collaborator was passed to __init__
    rrf_k,             \* self.rrf_k
    pc,                \* position of the search() call
    mode, top_k,       \* arguments of the call
    request,           \* its query, keyword_mode, item_type and tags
    fetches,           \* the fetches issued so far, in order
    kwRaw,             \* what client.search_items returned
    semRaw,            \* what semantic_search.search returned
    kwExc,             \* what client.search_items raised ("" if nothing)
    semExc,            \* what semantic_search.search raised ("" if nothing)
    keyword_results,   \* the local of _hybrid_search_rrf held over the await
    outcome,           \* "pending", "returned" or "raised"
    result,            \* the SearchResults returned
    error,             \* the exception raised
    accumulator,       \* the scores dict of the latest _rrf_fusion
    calls,             \* how many search() calls the service has taken
    previous,          \* outcome of the call before this one
    adapter_pc,        \* position of a direct call of an adapter
    op,                \* the adapter operation called
    arg,               \* its arguments
    upstream,          \* what the client / vector store answered
    ret,               \* the value the adapter returned
    raised,            \* the exception the adapter raised
    CHROMADB_AVAILABLE,  \* the module flag set when semantic_search is imported
    semantic_service,  \* the SemanticSearchService under construction / built
    other,             \* the frame of a second search() call, suspended at an await
    running,           \* which of the two concurrent calls holds the event loop
    fusion,            \* a direct call of _rrf_fusion and what it left behind
    scan               \* the locals of a scan_collections call

searchVars == <<semantic_search, rrf_k, pc, mode, top_k, request, fetches, kwRaw, semRaw,
                kwExc, semExc, keyword_results, outcome, result, error, accumulator>>
repeatVars == <<calls, previous>>
adapterVars == <<adapter_pc, op, arg, upstream, ret, raised, CHROMADB_AVAILABLE,
                 semantic_service>>
restVars == <<other, running, fusion, scan>>

vars == <<searchVars, repeatVars, adapterVars, restVars>>

NoResults == [items |-> <<>>, total |-> 0, count |-> 0, has_more |-> FALSE]
NoError == [type |-> "", msg |-> "", cause |-> ""]
NoOutcome == [outcome |-> "pending", result |-> NoResults, error |-> NoError]
NoArg == [query |-> <<>>, limit |-> 0]

\* the defaults of search(): keyword_mode, item_type and tags
DefaultRequest ==
    [query |-> "q", keyword_mode |-> "titleCreatorYear", item_type |-> "-attachment",
     tags |-> None]
\* the arguments a caller passes
Requests ==
    {DefaultRequest,
     [query |-> "ai", keyword_mode |-> "everything", item_type |-> "journalArticle",
      tags |-> <<"ml">>]}

\* the frame of a search() call that has not started
IdleFrame ==
    [pc |-> "idle", mode |-> "hybrid", top_k |-> 0, request |-> DefaultRequest,
     fetches |-> <<>>, kwRaw |-> <<>>, semRaw |-> <<>>, kwExc |-> "", semExc |-> "",
     keyword_results |-> NoResults, outcome |-> "pending", result |-> NoResults,
     error |-> NoError]

NoService == [state |-> "absent", client |-> FALSE, collection |-> FALSE, error |-> NoError]
NoFusion == [pc |-> "idle"]
\* scan_collections not yet called
NoScan ==
    [pc |-> "idle", scan_limit |-> 0, treated_limit |-> 0, collection_keys |-> <<>>,
     coll |-> 0, total_scanned |-> 0, total_processed |-> 0,
     scanned |-> 0, processed |-> 0, offset |-> 0, batch |-> 0,
     returned |-> [scanned |-> 0, processed |-> 0], error |-> ""]

Min(a, b) == IF a < b THEN a ELSE b
Max(a, b) == IF a > b THEN a ELSE b

\* --------------------------------------------------------- SearchResultItem
NoRank == 0     \* rank is None until a search path numbers the item

\* mutant: the nested data object ignored
DataOfFlat(item_data) == item_data

\* data = item_data["data"] if "data" in item_data (a dict) else item_data
DataOf(item_data) ==
    IF "data" \in DOMAIN item_data THEN item_data.data ELSE item_data

\* data.get("title", "Untitled")
TitleOf(data) == IF "title" \in DOMAIN data THEN data.title ELSE "Untitled"

\* if "key" not in data: raise ValueError
HasKey(record) == DataOf(record).key # NoKey

\* mutant: the item numbered and scored by the adapter itself
DictToSearchResultItemScored(record) ==
    [key |-> DataOf(record).key, title |-> TitleOf(DataOf(record)),
     keyword_score |-> <<1, 1>>, semantic_score |-> None, relevance_score |-> <<1, 1>>,
     rank |-> 1, snippet |-> None]

\* SearchService._normalize_search_result + _dict_to_search_result_item:
\* the item of a raw record that has a key, scores and rank still unset
DictToSearchResultItem(record) ==
    [key |-> DataOf(record).key, title |-> TitleOf(DataOf(record)),
     keyword_score |-> None, semantic_score |-> None, relevance_score |-> None,
     rank |-> NoRank, snippet |-> None]

\* the loop of search_items: records that fail normalisation are skipped
RECURSIVE ConvertRecords(_)
ConvertRecords(raw) ==
    IF raw = <<>> THEN <<>>
    ELSE IF HasKey(Head(raw))
         THEN <<DictToSearchResultItem(Head(raw))>> \o ConvertRecords(Tail(raw))
         ELSE ConvertRecords(Tail(raw))

HasMore(n, limit) == n >= limit

\* SearchService.search_items on the records the client returned
SearchItems(raw, limit) ==
    LET search_items == ConvertRecords(raw)
    IN [items |-> search_items, total |-> Len(search_items),
        count |-> Len(search_items),
        has_more |-> HasMore(Len(search_items), limit)]

\* mutant: the rank counted from 0 in the denominator's place
KeywordScoreOffByOne(rank) == Ratio(1, rank + 1)

\* 1.0 / rank
KeywordScore(rank) == Ratio(1, rank)

\* mutant: the keyword score set, the relevance score left unset
AnnotateKeywordScoreOnly(item, rank) ==
    [item EXCEPT !.keyword_score = KeywordScore(rank), !.rank = rank]

\* item.keyword_score = 1.0 / rank; item.relevance_score = item.keyword_score;
\* item.rank = rank
AnnotateKeyword(item, rank) ==
    [item EXCEPT !.keyword_score = KeywordScore(rank),
                 !.relevance_score = KeywordScore(rank),
                 !.rank = rank]

\* HybridSearchService._keyword_search after its await
KeywordSearch(raw, limit) ==
    LET results == SearchItems(raw, limit)
    IN [results EXCEPT
          !.items = [r \in 1..Len(results.items) |-> AnnotateKeyword(results.items[r], r)]]

\* result["key"] / result["score"] of a dict that lacks them: KeyError
Malformed(semantic) == \E i \in 1..Len(semantic) : ~HasKey(semantic[i])

\* mutant: relevance_score left unset on semantic items
SemanticItemNoRelevance(res, rank) ==
    [key |-> res.key, title |-> res.title,
     keyword_score |-> None, semantic_score |-> res.score,
     relevance_score |-> None, rank |-> rank, snippet |-> res.document]

SemanticItem(res, rank) ==
    [key |-> res.key, title |-> res.title,
     keyword_score |-> None, semantic_score |-> res.score,
     relevance_score |-> res.score, rank |-> rank, snippet |-> res.document]

\* HybridSearchService._semantic_search after its await, for well-formed dicts
SemanticSearch(semantic) ==
    LET items == [r \in 1..Len(semantic) |-> SemanticItem(semantic[r], r)]
    IN [items |-> items, total |-> Len(items), count |-> Len(items),
        has_more |-> FALSE]

\* ------------------------------------------------------------- _rrf_fusion
\* mutant: the RRF constant left out of the term
RrfTermWithoutK(k, rank) == Ratio(1, rank)

\* 1 / (self.rrf_k + rank), for rrf_k + rank # 0
RrfTerm(k, rank) == Ratio(1, k + rank)

\* the division raises ZeroDivisionError at some rank of a list of length n
DivisionByZero(k, n) == \E r \in 1..n : k + r = 0

\* mutant: no key is ever found in the accumulator
NotFound(scores, key) == 0

\* position of key in the accumulator (a dict: insertion-ordered), 0 if absent
Find(scores, key) ==
    IF \E i \in 1..Len(scores) : scores[i].item.key = key
    THEN CHOOSE i \in 1..Len(scores) : scores[i].item.key = key
    ELSE 0

NewEntry(item, keyword_rank, semantic_rank) ==
    [item |-> item, keyword_score |-> Zero, semantic_score |-> Zero,
     keyword_rank |-> keyword_rank, semantic_rank |-> semantic_rank]

\* mutant: the keyword term counted twice
AddKeywordTwice(scores, item, rank, k) ==
    LET at == Find(scores, item.key)
        s1 == IF at = 0 THEN Append(scores, NewEntry(item, rank, NoRank)) ELSE scores
        j == IF at = 0 THEN Len(s1) ELSE at
    IN [s1 EXCEPT ![j].keyword_score = RAdd(RAdd(@, RrfTerm(k, rank)), RrfTerm(k, rank)),
                  ![j].keyword_rank = rank]

\* the keyword loop body: term added to the entry of the key
AddKeyword(scores, item, rank, k) ==
    LET at == Find(scores, item.key)
        s1 == IF at = 0 THEN Append(scores, NewEntry(item, rank, NoRank)) ELSE scores
        j == IF at = 0 THEN Len(s1) ELSE at
    IN [s1 EXCEPT ![j].keyword_score = RAdd(@, RrfTerm(k, rank)),
                  ![j].keyword_rank = rank]

\* mutant: the entry's item replaced by the semantic instance
AddSemanticReplacingItem(scores, item, rank, k) ==
    LET at == Find(scores, item.key)
        s1 == IF at = 0 THEN Append(scores, NewEntry(item, NoRank, rank)) ELSE scores
        j == IF at = 0 THEN Len(s1) ELSE at
    IN [s1 EXCEPT ![j].semantic_score = RAdd(@, RrfTerm(k, rank)),
                  ![j].semantic_rank = rank,
                  ![j].item = item]

\* the semantic loop body: a new entry only for a key not yet in scores
AddSemantic(scores, item, rank, k) ==
    LET at == Find(scores, item.key)
        s1 == IF at = 0 THEN Append(scores, NewEntry(item, NoRank, rank)) ELSE scores
        j == IF at = 0 THEN Len(s1) ELSE at
    IN [s1 EXCEPT ![j].semantic_score = RAdd(@, RrfTerm(k, rank)),
                  ![j].semantic_rank = rank]

RECURSIVE ProcessKeyword(_, _, _, _)
ProcessKeyword(scores, items, rank, k) ==
    IF rank > Len(items) THEN scores
    ELSE ProcessKeyword(AddKeyword(scores, items[rank], rank, k), items, rank + 1, k)

RECURSIVE ProcessSemantic(_, _, _, _)
ProcessSemantic(scores, items, rank, k) ==
    IF rank > Len(items) THEN scores
    ELSE ProcessSemantic(AddSemantic(scores, items[rank], rank, k), items, rank + 1, k)

\* mutant: the accumulated score stored as it is, 0.0 included
ScoreKept(score) == score

\* data[...] if data[...] > 0 else None
ScoreOrNone(score) == IF RGt(score, Zero) THEN score ELSE None

\* mutant: the better of the two terms instead of their sum
CombinedMax(keyword_score, semantic_score) ==
    IF RGe(keyword_score, semantic_score) THEN keyword_score ELSE semantic_score

\* data["keyword_score"] + data["semantic_score"]
Combined(keyword_score, semantic_score) == RAdd(keyword_score, semantic_score)

Finalize(data) ==
    [data.item EXCEPT !.keyword_score = ScoreOrNone(data.keyword_score),
                      !.semantic_score = ScoreOrNone(data.semantic_score),
                      !.relevance_score = Combined(data.keyword_score, data.semantic_score)]

\* mutant: an unstable sort that lets equal scores change places
StaysBeforeStrict(x, y) == RGt(x.relevance_score, y.relevance_score)

\* x comes before y in list.sort(key=relevance, reverse=True) when y is
\* inserted after x: the sort is stable, so y passes only strictly smaller x
StaysBefore(x, y) == RGe(x.relevance_score, y.relevance_score)

RECURSIVE InsertSorted(_, _)
InsertSorted(sorted, y) ==
    IF sorted = <<>> THEN <<y>>
    ELSE LET last == sorted[Len(sorted)]
         IN IF StaysBefore(last, y) THEN Append(sorted, y)
            ELSE Append(InsertSorted(SubSeq(sorted, 1, Len(sorted) - 1), y), last)

RECURSIVE SortDescending(_)
SortDescending(fused) ==
    IF fused = <<>> THEN <<>>
    ELSE InsertSorted(SortDescending(SubSeq(fused, 1, Len(fused) - 1)), fused[Len(fused)])

\* mutant: the fused list returned whole
TruncateNothing(fused, n) == fused

\* fused[:top_k]
Truncate(fused, n) ==
    IF n >= 0 THEN SubSeq(fused, 1, Min(n, Len(fused)))
    ELSE SubSeq(fused, 1, Max(0, Len(fused) + n))

\* mutant: the accumulator kept on the service and never cleared
LeftoverScores == accumulator

\* scores: dict[str, dict[str, Any]] = {}
EmptyScores == <<>>

\* the accumulator after both loops; semantic_items is <<>> when
\* semantic_results is None
Accumulate(keyword_items, semantic_items, k) ==
    ProcessSemantic(ProcessKeyword(EmptyScores, keyword_items, 1, k),
                    semantic_items, 1, k)

RrfFusion(keyword_items, semantic_items, k, n) ==
    LET scores == Accumulate(keyword_items, semantic_items, k)
        fused == [i \in 1..Len(scores) |-> Finalize(scores[i])]
    IN Truncate(SortDescending(fused), n)

\* mutant: the ranks of the sources left on the fused items
KeepRanks(fused_items) == fused_items

\* for rank, item in enumerate(fused_items, 1): item.rank = rank
UpdateRanks(fused_items) ==
    [r \in 1..Len(fused_items) |-> [fused_items[r] EXCEPT !.rank = r]]

\* what _hybrid_search_rrf returns once both fetches are done
HybridResults(kw_results, semantic_items, k, n) ==
    LET fused_items == UpdateRanks(RrfFusion(kw_results.items, semantic_items, k, n))
    IN [items |-> fused_items, total |-> Len(fused_items),
        count |-> Len(fused_items), has_more |-> kw_results.has_more]

\* ------------------------------------------------------------- exceptions
ClientExceptions == {"ZoteroClientError", "RuntimeError"}
SemanticExceptions == {"SemanticSearchServiceError", "RuntimeError"}

Exception(type, msg, cause) == [type |-> type, msg |-> msg, cause |-> cause]

\* search_items: except ZoteroClientError as e: raise SearchServiceError from e
SearchItemsRaises(exc) ==
    IF exc = "ZoteroClientError"
    THEN Exception("SearchServiceError", "Keyword search failed", exc)
    ELSE Exception(exc, "", "")

\* mutant: unavailability raised as a semantic-backend error
UnavailableAsSemanticError ==
    Exception("SemanticSearchServiceError", "Semantic search unavailable", "")

\* _semantic_search without a collaborator
Unavailable ==
    Exception("HybridSearchServiceError", "Semantic search unavailable", "")

\* mutant: the except clause names the keyword error alone
CaughtKeywordOnly(type) == type = "SearchServiceError"

\* the exception types the except clause of search() names
Caught(type) == type \in {"SearchServiceError", "SemanticSearchServiceError"}

\* search(): except (...) as e: raise HybridSearchServiceError(...) from e
SearchRaises(exc) ==
    IF Caught(exc.type)
    THEN Exception("HybridSearchServiceError", "Search failed", exc.type)
    ELSE exc

\* mutant: the suppression names the wrong error type
SuppressedWrongType(type) == type = "SearchServiceError"

\* contextlib.suppress(SemanticSearchServiceError) in _hybrid_search_rrf
Suppressed(type) == type = "SemanticSearchServiceError"

\* mutant: no oversampling
FetchKNoOversample(n) == n

\* fetch_k = top_k * 2
FetchK(n) == n * 2

\* SearchItemsInput(query=query, mode=keyword_mode, item_type=item_type,
\*                  tags=tags, limit=top_k, offset=0)
KeywordFetch(req, limit) ==
    [source |-> "keyword", query |-> req.query, mode |-> req.keyword_mode,
     item_type |-> req.item_type, tags |-> req.tags, size |-> limit, offset |-> 0]

\* mutant: the filters handed to the semantic collaborator as well
SemanticFetchFiltered(req, n) ==
    [source |-> "semantic", query |-> req.query, item_type |-> req.item_type,
     tags |-> req.tags, size |-> n]

\* self.semantic_search.search(query, top_k=top_k)
SemanticFetch(req, n) == [source |-> "semantic", query |-> req.query, size |-> n]

\* ------------------------------------------------------------ the machine
\* nothing has been called yet
Idle ==
    /\ pc = "idle"
    /\ mode = "hybrid"
    /\ top_k = 0
    /\ request = DefaultRequest
    /\ fetches = <<>>
    /\ kwRaw = <<>>
    /\ semRaw = <<>>
    /\ kwExc = ""
    /\ semExc = ""
    /\ keyword_results = NoResults
    /\ outcome = "pending"
    /\ result = NoResults
    /\ error = NoError
    /\ accumulator = <<>>
    /\ calls = 1
    /\ previous = NoOutcome
    /\ adapter_pc = "idle"
    /\ op = ""
    /\ arg = NoArg
    /\ upstream = <<>>
    /\ ret = <<>>
    /\ raised = NoError
    /\ semantic_service = NoService
    /\ other = IdleFrame
    /\ running = [call |-> 1, overlapped |-> FALSE]
    /\ fusion = NoFusion
    /\ scan = NoScan

\* a HybridSearchService has been constructed; chromadb is installed
Init ==
    /\ semantic_search \in BOOLEAN
    /\ rrf_k \in RrfKs
    /\ CHROMADB_AVAILABLE = TRUE
    /\ Idle

Return(results) ==
    /\ pc' = "done"
    /\ outcome' = "returned"
    /\ result' = results
    /\ error' = NoError

Raise(exc) ==
    /\ pc' = "done"
    /\ outcome' = "raised"
    /\ result' = NoResults
    /\ error' = SearchRaises(exc)

\* lines 243-256 of _hybrid_search_rrf: fuse, renumber, build the results
Fuse(kw_results, semantic_items) ==
    IF \/ DivisionByZero(rrf_k, Len(kw_results.items))
       \/ DivisionByZero(rrf_k, Len(semantic_items))
    THEN Raise(Exception("ZeroDivisionError", "", "")) /\ UNCHANGED accumulator
    ELSE /\ Return(HybridResults(kw_results, semantic_items, rrf_k, top_k))
         /\ accumulator' = Accumulate(kw_results.items, semantic_items, rrf_k)

\* search(query, mode, top_k, keyword_mode, item_type, tags) up to its first
\* await
CallSearchWith(m, n, req) ==
    /\ pc = "idle"
    /\ mode' = m
    /\ top_k' = n
    /\ request' = req
    /\ UNCHANGED <<semantic_search, rrf_k, kwRaw, semRaw, kwExc, semExc, keyword_results>>
    /\ UNCHANGED <<accumulator, repeatVars, adapterVars, restVars>>
    /\ IF m = "semantic"
       THEN IF ~semantic_search
            THEN Raise(Unavailable) /\ UNCHANGED fetches
            ELSE /\ fetches' = Append(fetches, SemanticFetch(req, n))
                 /\ pc' = "semantic_fetch"
                 /\ UNCHANGED <<outcome, result, error>>
       ELSE /\ fetches' = Append(fetches,
                                 KeywordFetch(req, IF m = "keyword" THEN n ELSE FetchK(n)))
            /\ pc' = "keyword_fetch"
            /\ UNCHANGED <<outcome, result, error>>

\* a call that leaves keyword_mode, item_type and tags at their defaults
CallSearch(m, n) == CallSearchWith(m, n, DefaultRequest)

\* client.search_items returned raw: the rest of search_items and of
\* _keyword_search, and in hybrid mode the code up to the next await
KeywordFetchReturns(raw) ==
    /\ pc = "keyword_fetch"
    /\ kwRaw' = raw
    /\ UNCHANGED <<semantic_search, rrf_k, mode, top_k, request, semRaw, kwExc, semExc>>
    /\ UNCHANGED <<repeatVars, adapterVars, restVars>>
    /\ LET results == KeywordSearch(raw, fetches[Len(fetches)].size)
       IN IF mode = "keyword"
          THEN Return(results) /\ UNCHANGED <<fetches, keyword_results, accumulator>>
          ELSE /\ keyword_results' = results
               /\ IF semantic_search
                  THEN /\ fetches' = Append(fetches, SemanticFetch(request, FetchK(top_k)))
                       /\ pc' = "semantic_fetch"
                       /\ UNCHANGED <<outcome, result, error, accumulator>>
                  ELSE Fuse(results, <<>>) /\ UNCHANGED fetches

\* client.search_items raised
KeywordFetchRaises(exc) ==
    /\ pc = "keyword_fetch"
    /\ kwExc' = exc
    /\ Raise(SearchItemsRaises(exc))
    /\ UNCHANGED <<semantic_search, rrf_k, mode, top_k, request, fetches, kwRaw, semRaw,
                   semExc, keyword_results, accumulator, repeatVars, adapterVars,
                   restVars>>

\* semantic_search.search returned a list of result dicts
SemanticFetchReturns(semantic) ==
    /\ pc = "semantic_fetch"
    /\ semRaw' = semantic
    /\ UNCHANGED <<semantic_search, rrf_k, mode, top_k, request, fetches, kwRaw, kwExc,
                   semExc, keyword_results, repeatVars, adapterVars, restVars>>
    /\ IF Malformed(semantic)
       THEN Raise(Exception("KeyError", "", "")) /\ UNCHANGED accumulator
       ELSE IF mode = "semantic"
            THEN Return(SemanticSearch(semantic)) /\ UNCHANGED accumulator
            ELSE Fuse(keyword_results, SemanticSearch(semantic).items)

\* semantic_search.search raised
SemanticFetchRaises(exc) ==
    /\ pc = "semantic_fetch"
    /\ semExc' = exc
    /\ UNCHANGED <<semantic_search, rrf_k, mode, top_k, request, fetches, kwRaw, semRaw,
                   kwExc, keyword_results, repeatVars, adapterVars, restVars>>
    /\ IF mode = "hybrid" /\ Suppressed(exc)
       THEN Fuse(keyword_results, <<>>)
       ELSE Raise(Exception(exc, "", "")) /\ UNCHANGED accumulator

Next ==
    \/ \E m \in Modes, n \in TopKs : CallSearch(m, n)
    \/ \E raw \in KeywordResponses : KeywordFetchReturns(raw)
    \/ \E exc \in ClientExceptions : KeywordFetchRaises(exc)
    \/ \E semantic \in SemanticResponses : SemanticFetchReturns(semantic)
    \/ \E exc \in SemanticExceptions : SemanticFetchRaises(exc)

Spec == Init /\ [][Next]_vars

\* ------------------------------------------- the adapters, called directly
\* raw records of client.search_items in both formats of the API: flat, and
\* nested under "data" (the nested title is left to its default)
FlatRecords == [key : {"A", NoKey}, title : {"flat-title"}]
NestedRecords == [key : {"B", NoKey}, data : [key : {"C", NoKey}]]
RawRecords == FlatRecords \cup NestedRecords
RawResponses == SeqsUpTo(RawRecords, MaxRaw)
Limits == 0..MaxLimit

\* tag names and queries are strings over a small alphabet with both cases
TagNames == {<<>>, <<"a">>, <<"A", "b">>, <<"b">>}
Queries == {<<>>, <<"A">>, <<"a", "b">>}

\* what client.get_tags yields: {"tag": name} dicts, a dict without "tag",
\* plain strings, and a value that is neither
RawTags ==
    [kind : {"dict"}, tag : TagNames] \cup {[kind |-> "dict"]}
        \cup [kind : {"str"}, value : TagNames] \cup {[kind |-> "int"]}
TagResponses == SeqsUpTo(RawTags, MaxTags)

\* str.lower()
LowerChar(c) == IF c = "A" THEN "a" ELSE IF c = "B" THEN "b" ELSE c
Lower(str) == [i \in 1..Len(str) |-> LowerChar(str[i])]

\* needle in haystack
Contains(needle, haystack) ==
    \E i \in 0..(Len(haystack) - Len(needle)) :
        SubSeq(haystack, i + 1, i + Len(needle)) = needle

\* the normalisation loop of search_tags
RECURSIVE NormalizeTags(_)
NormalizeTags(all_tags) ==
    IF all_tags = <<>> THEN <<>>
    ELSE LET tag == Head(all_tags)
             tag_name == IF tag.kind = "dict"
                         THEN (IF "tag" \in DOMAIN tag THEN tag.tag ELSE <<>>)
                         ELSE IF tag.kind = "str" THEN tag.value ELSE <<>>
         IN (IF tag_name # <<>> THEN <<tag_name>> ELSE <<>>)
                \o NormalizeTags(Tail(all_tags))

\* query_lower in tag.lower()
TagMatches(query, tag) == Contains(Lower(query), Lower(tag))

\* mutant: the cap dropped
MatchingTagsUncapped(normalized_tags, query, limit) ==
    LET Test(tag) == TagMatches(query, tag)
    IN SelectSeq(normalized_tags, Test)

\* [tag for tag in normalized_tags if query_lower in tag.lower()][:limit]
MatchingTags(normalized_tags, query, limit) ==
    LET Test(tag) == TagMatches(query, tag)
    IN Truncate(SelectSeq(normalized_tags, Test), limit)

\* SearchService.search_tags on the tags the client returned
SearchTags(all_tags, query, limit) ==
    MatchingTags(NormalizeTags(all_tags), query, limit)

\* search_tags: except ZoteroClientError as e: raise SearchServiceError from e
SearchTagsRaises(exc) ==
    IF exc = "ZoteroClientError"
    THEN Exception("SearchServiceError", "Tag search failed", exc)
    ELSE Exception(exc, "", "")

\* what collection.query yields for the one query text: no row at all, or
\* one row of ids with the distances at the same indexes
StoreIds == {"A", "B"}
Distances == {<<0, 1>>, <<1, 4>>, <<1, 1>>, <<2, 1>>}
StoreRows == SeqsUpTo([id : StoreIds, distance : Distances], MaxRow)
StoreResults ==
    {[ids |-> <<>>, distances |-> <<>>]} \cup
    {[ids |-> <<[i \in 1..Len(row) |-> row[i].id]>>,
      distances |-> <<[i \in 1..Len(row) |-> row[i].distance]>>] : row \in StoreRows}
StoreExceptions == {"ValueError", "RuntimeError"}

One == <<1, 1>>
RSub(a, b) == Ratio(a[1] * b[2] - b[1] * a[2], a[2] * b[2])

\* mutant: the distance passed on as the score
SimilarityAsDistance(distance) == distance

\* 1.0 - results["distances"][0][i]
Similarity(distance) == RSub(One, distance)

\* SemanticSearchService.search after collection.query returned
ParseResults(results) ==
    IF results.ids = <<>> \/ results.ids[1] = <<>> THEN <<>>
    ELSE [i \in 1..Len(results.ids[1]) |->
             [key |-> results.ids[1][i],
              score |-> Similarity(results.distances[1][i])]]

\* except Exception as e: raise SemanticSearchServiceError from e
SemanticQueryRaises(exc) ==
    Exception("SemanticSearchServiceError", "Semantic search failed", exc)

\* what chromadb does inside SemanticSearchService.__init__: both calls work,
\* or creating the client raises, or get_or_create_collection raises
StoreSetups == {"ok", "client_fails", "collection_fails"}

\* the try block of __init__: the client, then the collection; any exception
\* becomes SemanticSearchServiceError and no instance is left
BuildService(setup) ==
    IF setup = "ok"
    THEN [state |-> "constructed", client |-> TRUE, collection |-> TRUE,
          error |-> NoError]
    ELSE [state |-> "failed", client |-> setup = "collection_fails",
          collection |-> FALSE,
          error |-> Exception("SemanticSearchServiceError",
                              "Failed to initialize ChromaDB", "RuntimeError")]

\* mutant: the flag is not looked at in the constructor
NewSemanticServiceUnchecked(available, setup) == BuildService(setup)

\* SemanticSearchService(...): if not CHROMADB_AVAILABLE: raise ImportError
NewSemanticService(available, setup) ==
    IF ~available
    THEN [state |-> "failed", client |-> FALSE, collection |-> FALSE,
          error |-> Exception("ImportError",
                              "chromadb is required for semantic search", "")]
    ELSE BuildService(setup)

\* the adapters are exercised on their own; no hybrid call is in progress.
\* CHROMADB_AVAILABLE is whatever the import of chromadb made it
InitAdapters ==
    /\ semantic_search = FALSE
    /\ rrf_k = 1
    /\ CHROMADB_AVAILABLE \in BOOLEAN
    /\ Idle

AdapterCall(name, query, limit) ==
    /\ adapter_pc = "idle"
    /\ adapter_pc' = "awaiting"
    /\ op' = name
    /\ arg' = [query |-> query, limit |-> limit]
    /\ UNCHANGED <<upstream, ret, raised, CHROMADB_AVAILABLE, semantic_service>>
    /\ UNCHANGED <<searchVars, repeatVars, restVars>>

AdapterReturns(response, value) ==
    /\ adapter_pc = "awaiting"
    /\ adapter_pc' = "returned"
    /\ upstream' = response
    /\ ret' = value
    /\ UNCHANGED <<op, arg, raised, CHROMADB_AVAILABLE, semantic_service>>
    /\ UNCHANGED <<searchVars, repeatVars, restVars>>

AdapterRaises(exception) ==
    /\ adapter_pc = "awaiting"
    /\ adapter_pc' = "raised"
    /\ raised' = exception
    /\ UNCHANGED <<op, arg, upstream, ret, CHROMADB_AVAILABLE, semantic_service>>
    /\ UNCHANGED <<searchVars, repeatVars, restVars>>

\* SearchService.search_items
CallSearchItems ==
    /\ adapter_pc = "idle"
    /\ \E limit \in Limits : AdapterCall("search_items", <<>>, limit)

ClientSearchItemsReturns ==
    /\ adapter_pc = "awaiting" /\ op = "search_items"
    /\ \E raw \in RawResponses : AdapterReturns(raw, SearchItems(raw, arg.limit))

ClientSearchItemsRaises ==
    /\ adapter_pc = "awaiting" /\ op = "search_items"
    /\ \E exc \in ClientExceptions : AdapterRaises(SearchItemsRaises(exc))

\* SearchService.search_tags
CallSearchTags ==
    /\ adapter_pc = "idle"
    /\ \E query \in Queries, limit \in Limits : AdapterCall("search_tags", query, limit)

GetTagsReturns ==
    /\ adapter_pc = "awaiting" /\ op = "search_tags"
    /\ \E all_tags \in TagResponses :
          AdapterReturns(all_tags, SearchTags(all_tags, arg.query, arg.limit))

GetTagsRaises ==
    /\ adapter_pc = "awaiting" /\ op = "search_tags"
    /\ \E exc \in ClientExceptions : AdapterRaises(SearchTagsRaises(exc))

\* SemanticSearchService.__init__, run once
ConstructSemanticService ==
    /\ adapter_pc = "idle"
    /\ semantic_service.state = "absent"
    /\ \E setup \in StoreSetups :
          semantic_service' = NewSemanticService(CHROMADB_AVAILABLE, setup)
    /\ UNCHANGED <<adapter_pc, op, arg, upstream, ret, raised, CHROMADB_AVAILABLE>>
    /\ UNCHANGED <<searchVars, repeatVars, restVars>>

\* SemanticSearchService.search, a method of a constructed instance: query and
\* top_k go to the store unchanged, the reply is the store's
CallSemanticSearch ==
    /\ adapter_pc = "idle"
    /\ semantic_service.state = "constructed"
    /\ AdapterCall("semantic_search", <<>>, 0)

CollectionQueryReturns ==
    /\ adapter_pc = "awaiting" /\ op = "semantic_search"
    /\ \E results \in StoreResults : AdapterReturns(results, ParseResults(results))

CollectionQueryRaises ==
    /\ adapter_pc = "awaiting" /\ op = "semantic_search"
    /\ \E exc \in StoreExceptions : AdapterRaises(SemanticQueryRaises(exc))

NextAdapters ==
    \/ CallSearchItems
    \/ ClientSearchItemsReturns
    \/ ClientSearchItemsRaises
    \/ CallSearchTags
    \/ GetTagsReturns
    \/ GetTagsRaises
    \/ ConstructSemanticService
    \/ CallSemanticSearch
    \/ CollectionQueryReturns
    \/ CollectionQueryRaises

SpecAdapters == InitAdapters /\ [][NextAdapters]_vars

\* ------------------------------------------------- the same call, repeated
\* a hybrid call has ended and the caller issues it again: a new frame
\* (fresh locals) on the same service object, same arguments
CallAgain ==
    /\ pc = "done" /\ calls = 1 /\ mode = "hybrid"
    /\ calls' = 2
    /\ previous' = [outcome |-> outcome, result |-> result, error |-> error]
    /\ pc' = "idle"
    /\ fetches' = <<>>
    /\ keyword_results' = NoResults
    /\ outcome' = "pending"
    /\ result' = NoResults
    /\ error' = NoError
    /\ UNCHANGED <<semantic_search, rrf_k, mode, top_k, request, kwRaw, semRaw, kwExc,
                   semExc, accumulator, adapterVars, restVars>>

RepeatCall == calls = 2 /\ CallSearch(mode, top_k)

\* the keyword source answers as it did the first time
RepeatKeywordFetch ==
    /\ calls = 2
    /\ IF kwExc = "" THEN KeywordFetchReturns(kwRaw) ELSE KeywordFetchRaises(kwExc)

\* the semantic source answers as it did the first time
RepeatSemanticFetch ==
    /\ calls = 2
    /\ IF semExc = "" THEN SemanticFetchReturns(semRaw) ELSE SemanticFetchRaises(semExc)

\* the top_k of the repeated call: keeps several items and truncates the
\* longer fused lists
RepeatTopKs == {MaxTopK - 1}

\* the first call: the steps of search(), taken while calls = 1
FirstCall(n) == calls = 1 /\ CallSearch("hybrid", n)
FirstKeywordFetchReturns(raw) == calls = 1 /\ KeywordFetchReturns(raw)
FirstKeywordFetchRaises(exc) == calls = 1 /\ KeywordFetchRaises(exc)
FirstSemanticFetchReturns(semantic) == calls = 1 /\ SemanticFetchReturns(semantic)
FirstSemanticFetchRaises(exc) == calls = 1 /\ SemanticFetchRaises(exc)

NextRepeat ==
    \/ \E n \in RepeatTopKs : FirstCall(n)
    \/ \E raw \in KeywordResponses : FirstKeywordFetchReturns(raw)
    \/ \E exc \in ClientExceptions : FirstKeywordFetchRaises(exc)
    \/ \E semantic \in SemanticResponses : FirstSemanticFetchReturns(semantic)
    \/ \E exc \in SemanticExceptions : FirstSemanticFetchRaises(exc)
    \/ CallAgain
    \/ RepeatCall
    \/ RepeatKeywordFetch
    \/ RepeatSemanticFetch

SpecRepeat == Init /\ [][NextRepeat]_vars

\* ------------------------------------------- calls with the caller's filters
\* search() called with every combination of mode, top_k and request; rrf_k
\* plays no part in what is fetched and is left at one value
InitFetch ==
    /\ semantic_search \in BOOLEAN
    /\ rrf_k = 1
    /\ CHROMADB_AVAILABLE = TRUE
    /\ Idle

NextFetch ==
    \/ \E m \in Modes, n \in TopKs, req \in Requests : CallSearchWith(m, n, req)
    \/ \E raw \in KeywordResponses : KeywordFetchReturns(raw)
    \/ \E exc \in ClientExceptions : KeywordFetchRaises(exc)
    \/ \E semantic \in SemanticResponses : SemanticFetchReturns(semantic)
    \/ \E exc \in SemanticExceptions : SemanticFetchRaises(exc)

SpecFetch == InitFetch /\ [][NextFetch]_vars

\* ------------------------------------------- two calls on one service object
\* A hybrid call runs alone; then the same call, given the same responses,
\* shares the event loop with a second search(): the loop may hand control
\* from one to the other whenever the running one is at an await.
\* What the sources answer to the first call, and to the second one
SoloKeywordResponses == SeqsUpTo(KeywordRecords, MaxKw - 1)
SoloSemanticResponses == SeqsUpTo(SemanticRecords, MaxSem - 1)
OtherRequest == [query |-> "ai", keyword_mode |-> "everything",
                 item_type |-> "journalArticle", tags |-> <<"ml">>]
OtherKeywordResponses ==
    {<<[key |-> "C", title |-> "kw-title"]>>,
     <<[key |-> "B", title |-> "kw-title"], [key |-> "A", title |-> "kw-title"]>>}
OtherSemanticResponses ==
    {<<[key |-> "A", score |-> SimilarityOf("A"), title |-> "sem-title",
        document |-> "doc"]>>}

Awaiting(position) == position \in {"keyword_fetch", "semantic_fetch"}

\* mutant: keyword_results kept on the service object instead of in the frame
SharedAttribute(own, shared) == shared

\* a local variable of a coroutine frame: resuming restores the frame's value
FrameLocal(own, shared) == own

\* the event loop suspends the running call and resumes the other one
Switch ==
    /\ calls = 2
    /\ other.pc # "done"
    /\ running' = [call |-> 3 - running.call,
                   overlapped |-> running.overlapped \/ (Awaiting(pc) /\ Awaiting(other.pc))]
    /\ other' = [pc |-> pc, mode |-> mode, top_k |-> top_k, request |-> request,
                 fetches |-> fetches, kwRaw |-> kwRaw, semRaw |-> semRaw,
                 kwExc |-> kwExc, semExc |-> semExc,
                 keyword_results |-> keyword_results, outcome |-> outcome,
                 result |-> result, error |-> error]
    /\ pc' = other.pc
    /\ mode' = other.mode
    /\ top_k' = other.top_k
    /\ request' = other.request
    /\ fetches' = other.fetches
    /\ kwRaw' = other.kwRaw
    /\ semRaw' = other.semRaw
    /\ kwExc' = other.kwExc
    /\ semExc' = other.semExc
    /\ keyword_results' = FrameLocal(other.keyword_results, keyword_results)
    /\ outcome' = other.outcome
    /\ result' = other.result
    /\ error' = other.error
    /\ UNCHANGED <<semantic_search, rrf_k, accumulator, repeatVars, adapterVars,
                   fusion, scan>>

\* the first call again, answered as before
ReplayCall == running.call = 1 /\ RepeatCall
ReplayKeywordFetch == running.call = 1 /\ RepeatKeywordFetch
ReplaySemanticFetch == running.call = 1 /\ RepeatSemanticFetch

\* the second call
OtherCall ==
    /\ calls = 2 /\ running.call = 2
    /\ \E m \in Modes : CallSearchWith(m, 1, OtherRequest)
OtherKeywordFetchReturns ==
    /\ calls = 2 /\ running.call = 2
    /\ \E raw \in OtherKeywordResponses : KeywordFetchReturns(raw)
OtherKeywordFetchRaises ==
    /\ calls = 2 /\ running.call = 2
    /\ \E exc \in ClientExceptions : KeywordFetchRaises(exc)
OtherSemanticFetchReturns ==
    /\ calls = 2 /\ running.call = 2
    /\ \E semantic \in OtherSemanticResponses : SemanticFetchReturns(semantic)
OtherSemanticFetchRaises ==
    /\ calls = 2 /\ running.call = 2
    /\ \E exc \in SemanticExceptions : SemanticFetchRaises(exc)

NextConcurrent ==
    \/ \E n \in RepeatTopKs : FirstCall(n)
    \/ \E raw \in SoloKeywordResponses : FirstKeywordFetchReturns(raw)
    \/ \E exc \in ClientExceptions : FirstKeywordFetchRaises(exc)
    \/ \E semantic \in SoloSemanticResponses : FirstSemanticFetchReturns(semantic)
    \/ \E exc \in SemanticExceptions : FirstSemanticFetchRaises(exc)
    \/ CallAgain
    \/ ReplayCall
    \/ ReplayKeywordFetch
    \/ ReplaySemanticFetch
    \/ OtherCall
    \/ OtherKeywordFetchReturns
    \/ OtherKeywordFetchRaises
    \/ OtherSemanticFetchReturns
    \/ OtherSemanticFetchRaises
    \/ Switch

SpecConcurrent == InitFetch /\ [][NextConcurrent]_vars

\* ------------------------------------------------ _rrf_fusion, called directly
\* item lists a caller can hold: the items of a keyword search and the items
\* of a semantic search
KeywordItemLists == {KeywordSearch(raw, Len(raw)).items : raw \in KeywordResponses}
SemanticItemLists ==
    {SemanticSearch(semantic).items :
        semantic \in {r \in SemanticResponses : ~Malformed(r)}}

\* items[i] is the first item of its key in the list
FirstOfKey(items, i) == \A j \in 1..(i - 1) : items[j].key # items[i].key
InList(items, key) == \E i \in 1..Len(items) : items[i].key = key

\* scores[key]["item"] is the object of the list, and lines 313-328 assign to
\* its three score fields: the keyword list as _rrf_fusion leaves it
KeywordItemsAfter(keyword_items, semantic_items, k) ==
    LET scores == Accumulate(keyword_items, semantic_items, k)
    IN [i \in 1..Len(keyword_items) |->
          IF FirstOfKey(keyword_items, i)
          THEN Finalize(scores[Find(scores, keyword_items[i].key)])
          ELSE keyword_items[i]]

\* the semantic list as _rrf_fusion leaves it: the entry holds the semantic
\* object only for a key the keyword list lacks
SemanticItemsAfter(keyword_items, semantic_items, k) ==
    LET scores == Accumulate(keyword_items, semantic_items, k)
    IN [i \in 1..Len(semantic_items) |->
          IF FirstOfKey(semantic_items, i) /\ ~InList(keyword_items, semantic_items[i].key)
          THEN Finalize(scores[Find(scores, semantic_items[i].key)])
          ELSE semantic_items[i]]

FusionRaises(keyword_items, semantic_items, k) ==
    DivisionByZero(k, Len(keyword_items)) \/ DivisionByZero(k, Len(semantic_items))

\* one call of _rrf_fusion: what it returns and what it leaves in its arguments
FusionCall(keyword_items, semantic_items, k, n) ==
    IF FusionRaises(keyword_items, semantic_items, k)
    THEN [raised |-> TRUE, fused |-> <<>>, keyword_after |-> keyword_items,
          semantic_after |-> semantic_items]
    ELSE [raised |-> FALSE,
          fused |-> RrfFusion(keyword_items, semantic_items, k, n),
          keyword_after |-> KeywordItemsAfter(keyword_items, semantic_items, k),
          semantic_after |-> SemanticItemsAfter(keyword_items, semantic_items, k)]

\* _rrf_fusion(L1, L2, top_k)
CallRrfFusion ==
    /\ fusion.pc = "idle"
    /\ \E L1 \in KeywordItemLists, L2 \in SemanticItemLists, n \in TopKs :
          fusion' = [pc |-> "fused", keyword_results |-> L1, semantic_results |-> L2,
                     top_k |-> n, first |-> FusionCall(L1, L2, rrf_k, n)]
    /\ UNCHANGED <<searchVars, repeatVars, adapterVars, other, running, scan>>

\* _rrf_fusion(L2, L1, top_k) on equal lists
CallRrfFusionSwapped ==
    /\ fusion.pc = "fused"
    /\ fusion' = [pc |-> "both", keyword_results |-> fusion.keyword_results,
                  semantic_results |-> fusion.semantic_results,
                  top_k |-> fusion.top_k, first |-> fusion.first,
                  swapped |-> FusionCall(fusion.semantic_results,
                                         fusion.keyword_results, rrf_k, fusion.top_k)]
    /\ UNCHANGED <<searchVars, repeatVars, adapterVars, other, running, scan>>

NextFusion ==
    \/ CallRrfFusion
    \/ CallRrfFusionSwapped

SpecFusion == Init /\ [][NextFusion]_vars

\* ------------------------------------------------------- scan_collections
\* progress_callback is None. scan is the frame of scan_collections together
\* with that of the _scan_single_collection it is awaiting.
ScanLimits == 1..MaxScanLimit
TreatedLimits == 0..MaxTreated

RECURSIVE NextCollection(_)
RECURSIVE EnterWhile(_)

\* lines 61-62, then the next round of the for loop
FinishCollection(s) ==
    NextCollection([s EXCEPT !.total_scanned = @ + s.scanned,
                             !.total_processed = @ + s.processed,
                             !.coll = @ + 1])

\* while total_processed + processed < treated_limit: items = await ...
EnterWhile(s) ==
    IF s.total_processed + s.processed < s.treated_limit
    THEN [s EXCEPT !.pc = "items"]
    ELSE FinishCollection(s)

\* for coll_key in collection_keys: if total_processed >= treated_limit: break;
\* the call of _scan_single_collection up to its await; return after the loop
NextCollection(s) ==
    IF s.coll > Len(s.collection_keys) \/ s.total_processed >= s.treated_limit
    THEN [s EXCEPT !.pc = "done",
                   !.returned = [scanned |-> s.total_scanned,
                                 processed |-> s.total_processed]]
    ELSE EnterWhile([s EXCEPT !.scanned = 0, !.processed = 0, !.offset = 0,
                              !.batch = 0])

\* lines 92-104 for a batch of n items of which process_fn reports p processed
AfterBatch(s, n, p) ==
    IF n = 0 THEN FinishCollection([s EXCEPT !.batch = 0])
    ELSE LET t == [s EXCEPT !.batch = n, !.scanned = @ + n, !.processed = @ + p]
         IN IF n < s.scan_limit THEN FinishCollection(t)
            ELSE EnterWhile([t EXCEPT !.offset = @ + s.scan_limit])

\* scan_collections(item_service, collection_key, scan_limit, treated_limit,
\* process_fn) up to its first await
CallScanCollections ==
    /\ scan.pc = "idle"
    /\ \E single \in BOOLEAN, limit \in ScanLimits, treated \in TreatedLimits :
          LET s == [NoScan EXCEPT !.scan_limit = limit, !.treated_limit = treated]
          IN scan' = IF single
                     THEN NextCollection([s EXCEPT !.collection_keys = <<1>>,
                                                   !.coll = 1])
                     ELSE [s EXCEPT !.pc = "collections"]
    /\ UNCHANGED <<searchVars, repeatVars, adapterVars, other, running, fusion>>

\* get_sorted_collections returns n collections
SortedCollectionsReturn ==
    /\ scan.pc = "collections"
    /\ \E n \in 0..MaxColls :
          scan' = NextCollection([scan EXCEPT !.collection_keys = [i \in 1..n |-> i],
                                              !.coll = 1])
    /\ UNCHANGED <<searchVars, repeatVars, adapterVars, other, running, fusion>>

\* get_collection_items returns a batch of at most scan_limit items, and
\* process_fn reports how many of them it processed
CollectionItemsReturn ==
    /\ scan.pc = "items"
    /\ \E n \in 0..Min(scan.scan_limit, MaxItems - scan.offset) :
          \E p \in 0..n : scan' = AfterBatch(scan, n, p)
    /\ UNCHANGED <<searchVars, repeatVars, adapterVars, other, running, fusion>>

\* either await raises: nothing is caught
ScanFetchRaises ==
    /\ scan.pc \in {"collections", "items"}
    /\ scan' = [scan EXCEPT !.pc = "raised", !.error = "ZoteroClientError"]
    /\ UNCHANGED <<searchVars, repeatVars, adapterVars, other, running, fusion>>

NextScan ==
    \/ CallScanCollections
    \/ SortedCollectionsReturn
    \/ CollectionItemsReturn
    \/ ScanFetchRaises

\* the scanner is a module-level function; the search service plays no part
InitScan ==
    /\ semantic_search = FALSE
    /\ rrf_k = 1
    /\ CHROMADB_AVAILABLE = TRUE
    /\ Idle

SpecScan == InitScan /\ [][NextScan]_vars

\* ================================================================ claims
\* what the two sources delivered to this call, stated from the raw responses
Done == pc = "done"
Returned == Done /\ outcome = "returned"
Raised == Done /\ outcome = "raised"

KeyList(records) == [i \in 1..Len(records) |-> records[i].key]
WithKey(record) == record.key \in Keys

\* keys of the keyword list, in source order
KwKeys == KeyList(SelectSeq(kwRaw, WithKey))
\* keys of the semantic list that reached fusion, in source order
SemKeys == IF semExc = "" THEN KeyList(semRaw) ELSE <<>>

Range(seq) == {seq[i] : i \in 1..Len(seq)}
NoRepeats(seq) == \A i, j \in 1..Len(seq) : i # j => seq[i] # seq[j]
UnionKeys == Range(KwKeys) \cup Range(SemKeys)

\* least position of key in seq, 0 if it does not occur
Pos(seq, key) ==
    IF key \in Range(seq)
    THEN CHOOSE i \in 1..Len(seq) : seq[i] = key /\ \A j \in 1..(i - 1) : seq[j] # key
    ELSE 0

OrZero(score) == IF score = None THEN Zero ELSE score
Reciprocal(k, pos) == IF pos = 0 THEN None ELSE Ratio(1, k + pos)

HybridReturned == Returned /\ mode = "hybrid"

\* C1: in hybrid mode with rrf_k >= 0 and source lists without repeated
\* keys, every returned item has keyword_score = 1/(k + r_keyword) and
\* semantic_score = 1/(k + r_semantic) for its 1-based positions (None where
\* its key is absent), and relevance_score is the sum of the ones present.
C1_RrfScore ==
    (HybridReturned /\ rrf_k >= 0 /\ NoRepeats(KwKeys) /\ NoRepeats(SemKeys)) =>
        \A i \in 1..Len(result.items) :
            LET item == result.items[i]
                kw == Reciprocal(rrf_k, Pos(KwKeys, item.key))
                sem == Reciprocal(rrf_k, Pos(SemKeys, item.key))
            IN /\ item.keyword_score = kw
               /\ item.semantic_score = sem
               /\ item.relevance_score = RAdd(OrZero(kw), OrZero(sem))

\* rrf_k = 1, keyword rank 1 and semantic rank 2: 1/2 + 1/3 = 5/6
C1_Witness ==
    /\ HybridReturned /\ rrf_k = 1
    /\ NoRepeats(KwKeys) /\ NoRepeats(SemKeys)
    /\ \E i \in 1..Len(result.items) :
          /\ Pos(KwKeys, result.items[i].key) = 1
          /\ Pos(SemKeys, result.items[i].key) = 2
          /\ result.items[i].relevance_score = <<5, 6>>

\* C2: fusion is a union: with rrf_k >= 0 and top_k at least the number of
\* distinct keys, exactly one item per key of either list is returned, and
\* a score is None exactly when the key is absent from that list.
C2_Union ==
    (HybridReturned /\ rrf_k >= 0 /\ top_k >= Cardinality(UnionKeys)) =>
        /\ Len(result.items) = Cardinality(UnionKeys)
        /\ Range(KeyList(result.items)) = UnionKeys
        /\ \A i \in 1..Len(result.items) :
              LET item == result.items[i]
              IN /\ (item.keyword_score = None) <=> (item.key \notin Range(KwKeys))
                 /\ (item.semantic_score = None) <=> (item.key \notin Range(SemKeys))

C2_Witness ==
    /\ HybridReturned /\ rrf_k >= 0 /\ top_k >= Cardinality(UnionKeys)
    /\ Len(result.items) = 3
    /\ \E i, j, l \in 1..Len(result.items) :
          /\ result.items[i].keyword_score = None
          /\ result.items[j].semantic_score = None
          /\ result.items[l].keyword_score # None
          /\ result.items[l].semantic_score # None

\* order of first insertion into the accumulator: keyword list first, then
\* the semantic list
RECURSIVE Dedup(_)
Dedup(seq) ==
    IF seq = <<>> THEN <<>>
    ELSE LET front == Dedup(SubSeq(seq, 1, Len(seq) - 1))
             x == seq[Len(seq)]
         IN IF x \in Range(front) THEN front ELSE Append(front, x)

InsertionOrder == Dedup(KwKeys \o SemKeys)

\* C3: the returned list is in descending relevance_score order, and items
\* of equal relevance_score are in accumulator insertion order (keyword-list
\* order, then semantic-only items in semantic-list order).
C3_StableDescending ==
    HybridReturned =>
        \A i, j \in 1..Len(result.items) :
            i < j =>
                LET x == result.items[i]
                    y == result.items[j]
                IN /\ RGe(x.relevance_score, y.relevance_score)
                   /\ x.relevance_score = y.relevance_score =>
                         Pos(InsertionOrder, x.key) < Pos(InsertionOrder, y.key)

\* keyword [A, B], semantic [B, A]: A and B tie, A stays first
C3_Witness ==
    /\ HybridReturned
    /\ Len(result.items) >= 2
    /\ result.items[1].key = "A" /\ result.items[2].key = "B"
    /\ result.items[1].relevance_score = result.items[2].relevance_score
    /\ Pos(SemKeys, "B") < Pos(SemKeys, "A")
    /\ Pos(SemKeys, "B") > 0

\* C4: for top_k >= 0 a hybrid search returns min(top_k, number of distinct
\* keys of the two lists) items, whose ranks are 1, 2, ..., n in list order.
C4_TruncateAndRank ==
    (HybridReturned /\ top_k >= 0) =>
        /\ Len(result.items) = Min(top_k, Cardinality(UnionKeys))
        /\ \A i \in 1..Len(result.items) : result.items[i].rank = i

\* truncation dropped an item, and a returned item's rank differs from the
\* rank its source gave it
C4_Witness ==
    /\ HybridReturned /\ top_k >= 1
    /\ Cardinality(UnionKeys) > top_k
    /\ Len(result.items) = top_k
    /\ \E i \in 1..Len(result.items) :
          /\ Pos(KwKeys, result.items[i].key) \notin {0, i}
          /\ result.items[i].rank = i
          /\ result.items[i].semantic_score = None

Take(seq, n) == SubSeq(seq, 1, Min(n, Len(seq)))

HybridWithCollaborator == Done /\ mode = "hybrid" /\ semantic_search

\* every returned item comes from the keyword list alone
KeywordOnlyFusion ==
    /\ Len(result.items) = Min(top_k, Cardinality(Range(KwKeys)))
    /\ \A i \in 1..Len(result.items) :
          /\ result.items[i].key \in Range(KwKeys)
          /\ result.items[i].semantic_score = None
          /\ result.items[i].title = "kw-title"

\* C5: in hybrid mode with a semantic collaborator, whatever the semantic
\* path raises (SemanticSearchServiceError, any other exception, or an error
\* while converting a malformed result), search() raises nothing and returns
\* the keyword-only fusion, provided the keyword fetch succeeded (stated here
\* for rrf_k >= 0 and top_k >= 1).
C5_AnySemanticFailureSwallowed ==
    (/\ HybridWithCollaborator /\ kwExc = "" /\ rrf_k >= 0 /\ top_k >= 1
     /\ (semExc # "" \/ Malformed(semRaw))) =>
        (outcome = "returned" /\ KeywordOnlyFusion)

C7_UnavailableFatalOnlyInSemanticMode ==
    /\ (Done /\ ~semantic_search /\ mode = "semantic") =>
          /\ outcome = "raised"
          /\ error.type = "HybridSearchServiceError"
          /\ error.msg = "Semantic search unavailable"
          /\ fetches = <<>>
    /\ (Done /\ ~semantic_search /\ mode = "hybrid") =>
          /\ error.msg # "Semantic search unavailable"
          /\ Len(fetches) = 1 /\ fetches[1].source = "keyword"
          /\ outcome = "raised" => (kwExc # "" \/ error.type = "ZeroDivisionError")
          /\ outcome = "returned" => KeywordOnlyFusion

C7_Witness ==
    /\ Done /\ ~semantic_search /\ mode = "semantic"
    /\ outcome = "raised" /\ error.msg = "Semantic search unavailable"

\* C8: keyword mode returns the adapter's items in source order; the item at
\* 1-based position r has keyword_score = relevance_score = 1/r and rank = r,
\* and semantic_score unset.
C8_KeywordMode ==
    (Returned /\ mode = "keyword") =>
        /\ Len(result.items) = Len(KwKeys)
        /\ \A r \in 1..Len(result.items) :
              /\ result.items[r].key = KwKeys[r]
              /\ result.items[r].keyword_score = Ratio(1, r)
              /\ result.items[r].relevance_score = result.items[r].keyword_score
              /\ result.items[r].rank = r
              /\ result.items[r].semantic_score = None

C8_Witness ==
    /\ Returned /\ mode = "keyword"
    /\ Len(result.items) = 3
    /\ result.items[3].keyword_score = <<1, 3>>

\* C9: semantic mode returns one item per semantic result, in order, with
\* semantic_score = relevance_score = the raw similarity, rank = position and
\* keyword_score unset; total = count = number of items, has_more is false.
C9_SemanticMode ==
    (Returned /\ mode = "semantic") =>
        /\ Len(result.items) = Len(semRaw)
        /\ \A r \in 1..Len(result.items) :
              /\ result.items[r].key = semRaw[r].key
              /\ result.items[r].semantic_score = semRaw[r].score
              /\ result.items[r].relevance_score = semRaw[r].score
              /\ result.items[r].rank = r
              /\ result.items[r].keyword_score = None
        /\ result.total = Len(result.items)
        /\ result.count = Len(result.items)
        /\ result.has_more = FALSE

\* two results, not in descending similarity, one of them negative
C9_Witness ==
    /\ Returned /\ mode = "semantic"
    /\ Len(result.items) = 2
    /\ result.items[1].relevance_score = <<-1, 4>>
    /\ result.items[2].relevance_score = <<9, 10>>

\* C10: a SearchServiceError of the keyword fetch (keyword or hybrid mode)
\* and a SemanticSearchServiceError of the semantic fetch in semantic mode
\* leave search() as a HybridSearchServiceError chained to the original.
C10_UniformError ==
    /\ (Done /\ kwExc = "ZoteroClientError") =>
          /\ outcome = "raised"
          /\ error.type = "HybridSearchServiceError"
          /\ error.cause = "SearchServiceError"
    /\ (Done /\ mode = "semantic" /\ semExc = "SemanticSearchServiceError") =>
          /\ outcome = "raised"
          /\ error.type = "HybridSearchServiceError"
          /\ error.cause = "SemanticSearchServiceError"

C10_Witness ==
    /\ Done /\ mode = "semantic" /\ semExc = "SemanticSearchServiceError"
    /\ error.type = "HybridSearchServiceError"

\* C11: every search() call ends with a SearchResults value or with a
\* HybridSearchServiceError; no other exception type reaches the caller.
C11_ResultsOrHybridError ==
    Done => (outcome = "returned" \/ error.type = "HybridSearchServiceError")

\* C12: a hybrid search() repeated with the same arguments on the same
\* service, with both sources answering as before, ends as the first call
\* did: the same items in the same order with the same scores and ranks, and
\* the same has_more.
C12_Deterministic ==
    (Done /\ calls = 2) =>
        /\ outcome = previous.outcome
        /\ result = previous.result
        /\ error = previous.error

C12_Witness ==
    /\ Done /\ calls = 2 /\ outcome = "returned"
    /\ Len(result.items) >= 2
    /\ result = previous.result
    /\ \E i \in 1..Len(result.items) :
          /\ result.items[i].keyword_score # None
          /\ result.items[i].semantic_score # None

\* C13: in hybrid mode has_more is the keyword fetch's flag: true exactly
\* when the keyword source yielded at least 2 * top_k normalised records,
\* whatever the semantic list and the truncation.
C13_HasMoreMirrorsKeyword ==
    HybridReturned =>
        /\ result.has_more = keyword_results.has_more
        /\ result.has_more = (Len(KwKeys) >= 2 * top_k)

\* has_more is true although the fused list is longer than the keyword list
C13_Witness ==
    /\ HybridReturned /\ top_k = 1
    /\ result.has_more
    /\ Len(KwKeys) = 2
    /\ Cardinality(UnionKeys) = 3

\* C14: relevance_score is non-null on every item search() returns, in
\* every mode.
C14_RelevanceNonNull ==
    Returned => \A i \in 1..Len(result.items) : result.items[i].relevance_score # None

\* rrf_k < 0: both per-list scores are None, relevance_score is still set
C14_Witness ==
    /\ HybridReturned
    /\ \E i \in 1..Len(result.items) :
          /\ result.items[i].keyword_score = None
          /\ result.items[i].semantic_score = None
          /\ result.items[i].relevance_score # None

\* ------------------------------------------------ claims on the adapters
AdapterReturned(name) == adapter_pc = "returned" /\ op = name
AdapterRaised(name) == adapter_pc = "raised" /\ op = name

\* the key normalisation reads: the nested data object's, else the record's
EffectiveKey(record) ==
    IF "data" \in DOMAIN record THEN record.data.key ELSE record.key
Keyed(record) == EffectiveKey(record) # NoKey
EffectiveKeys(records) ==
    [i \in 1..Len(SelectSeq(records, Keyed)) |-> EffectiveKey(SelectSeq(records, Keyed)[i])]

C16_AnyClientFailureWrapped ==
    (AdapterRaised("search_items") \/ AdapterRaised("search_tags")) =>
        raised.type = "SearchServiceError"

NameOf(tag) ==
    IF tag.kind = "dict" /\ "tag" \in DOMAIN tag THEN tag.tag
    ELSE IF tag.kind = "str" THEN tag.value
    ELSE <<>>
MatchingName(tag) == NameOf(tag) # <<>> /\ TagMatches(arg.query, NameOf(tag))
MatchingNames(tags) ==
    [i \in 1..Len(SelectSeq(tags, MatchingName)) |-> NameOf(SelectSeq(tags, MatchingName)[i])]

\* C18: search_tags(query, limit), limit >= 0, returns in upstream order the
\* first limit non-empty tag names whose lowercase form contains the
\* lowercase query: every name returned matches, there are at most limit of
\* them, and no earlier matching name is left out.
C18_TagsFilteredAndCapped ==
    AdapterReturned("search_tags") =>
        /\ ret = Take(MatchingNames(upstream), arg.limit)
        /\ Len(ret) <= arg.limit
        /\ \A i \in 1..Len(ret) : ret[i] # <<>> /\ Contains(Lower(arg.query), Lower(ret[i]))

\* a mixed-case name matched by a mixed-case query, a non-matching name
\* skipped, and the cap cutting a later match off
C18_Witness ==
    /\ AdapterReturned("search_tags")
    /\ arg.query = <<"A">> /\ arg.limit = 1
    /\ Len(upstream) = 3
    /\ NameOf(upstream[1]) = <<"b">>
    /\ NameOf(upstream[2]) = <<"A", "b">>
    /\ NameOf(upstream[3]) = <<"a">>
    /\ ret = <<<<"A", "b">>>>

\* C19: the list search_tags returns holds no tag name twice.
C19_TagsDeduplicated ==
    AdapterReturned("search_tags") => NoRepeats(ret)

\* C20: SemanticSearchService.search returns one entry per id of the store's
\* result row, in the store's order, with key = the id and score = 1 -
\* distance (a distance in [0, 2] gives a score in [-1, 1]); no ids, an
\* empty list.
C20_ScoreIsOneMinusDistance ==
    AdapterReturned("semantic_search") =>
        IF upstream.ids = <<>> \/ upstream.ids[1] = <<>>
        THEN ret = <<>>
        ELSE /\ Len(ret) = Len(upstream.ids[1])
             /\ \A i \in 1..Len(ret) :
                   /\ ret[i].key = upstream.ids[1][i]
                   /\ RAdd(ret[i].score, upstream.distances[1][i]) = One
                   /\ RGe(ret[i].score, <<-1, 1>>)
                   /\ RGe(One, ret[i].score)

\* the extremes of the distance range in one row
C20_Witness ==
    /\ AdapterReturned("semantic_search")
    /\ Len(ret) = 2
    /\ upstream.distances[1] = << <<2, 1>>, <<1, 4>> >>
    /\ ret[1].score = <<-1, 1>>
    /\ ret[2].score = <<3, 4>>

\* --------------------------------------------- claims on fusion, continued
Positions(seq, key) == {i \in 1..Len(seq) : seq[i] = key}
InBoth(key) == key \in Range(KwKeys) /\ key \in Range(SemKeys)
InOne(key) == (key \in Range(KwKeys)) # (key \in Range(SemKeys))
ResultPos(key) == Pos(KeyList(result.items), key)

\* p is in both lists, q in one only, at a rank no better than p's better rank
Comparable(p, q) ==
    /\ InBoth(p) /\ InOne(q)
    /\ \E a \in Positions(KwKeys, p), b \in Positions(SemKeys, p),
          c \in Positions(KwKeys, q) \cup Positions(SemKeys, q) : c >= Min(a, b)

BothBeforeOne(p, q) ==
    /\ ResultPos(p) > 0
    /\ ResultPos(p) < ResultPos(q)
    /\ RGt(result.items[ResultPos(p)].relevance_score,
           result.items[ResultPos(q)].relevance_score)

\* C22 as stated: for rrf_k >= 0, an item at keyword rank a and semantic rank
\* b has a strictly greater relevance_score than, and is placed before, any
\* item that occurs in one list only at a rank c >= min(a, b).
C22_BothOutrankOne ==
    (HybridReturned /\ rrf_k >= 0) =>
        \A p, q \in Keys :
            (Comparable(p, q) /\ ResultPos(q) > 0) => BothBeforeOne(p, q)

\* C22 amended: the same, for source lists in which no key occurs twice.
C22_BothOutrankOneDistinctKeys ==
    (HybridReturned /\ rrf_k >= 0 /\ NoRepeats(KwKeys) /\ NoRepeats(SemKeys)) =>
        \A p, q \in Keys :
            (Comparable(p, q) /\ ResultPos(q) > 0) => BothBeforeOne(p, q)

\* A at keyword rank 1 and semantic rank 2 is placed before C, keyword rank 3
C22_Witness ==
    /\ HybridReturned /\ rrf_k = 1 /\ top_k = 3
    /\ KwKeys = <<"A", "B", "C">> /\ SemKeys = <<"B", "A">>
    /\ Comparable("A", "C")
    /\ BothBeforeOne("A", "C")

\* C24: in hybrid mode the semantic fetch is issued only after the keyword
\* fetch has returned; when the keyword fetch fails, no semantic fetch is
\* issued and the caller gets the failure as a HybridSearchServiceError.
C24_KeywordFirstAndNeverSwallowed ==
    mode = "hybrid" =>
        /\ (\E i \in 1..Len(fetches) : fetches[i].source = "semantic") =>
              /\ fetches[1].source = "keyword"
              /\ pc # "keyword_fetch"
              /\ kwExc = ""
        /\ (Done /\ kwExc # "") =>
              /\ \A i \in 1..Len(fetches) : fetches[i].source # "semantic"
              /\ outcome = "raised"
              /\ error.type = "HybridSearchServiceError"

NoSemanticResults == ~semantic_search \/ semExc # ""

\* the first top_k items of the keyword list, scored 1/(rrf_k + r)
KeywordPrefix ==
    /\ Len(result.items) = Min(top_k, Len(KwKeys))
    /\ \A r \in 1..Len(result.items) :
          /\ result.items[r].key = KwKeys[r]
          /\ result.items[r].semantic_score = None
          /\ result.items[r].keyword_score = Ratio(1, rrf_k + r)
          /\ result.items[r].relevance_score = Ratio(1, rrf_k + r)

\* C27 as stated: when fusion runs with no semantic results (no collaborator,
\* or the semantic fetch failed) the output is the first top_k items of the
\* keyword list in keyword order, with semantic_score null and keyword_score
\* = relevance_score = 1/(rrf_k + r).
C27_KeywordOnlyIsPrefix ==
    (HybridReturned /\ NoSemanticResults) => KeywordPrefix

\* C27 amended: the same, for rrf_k >= 0 and a keyword list in which no key
\* occurs twice.
C27_KeywordOnlyIsPrefixDistinctKeys ==
    (HybridReturned /\ NoSemanticResults /\ rrf_k >= 0 /\ NoRepeats(KwKeys)) =>
        KeywordPrefix

\* no collaborator, three keyword hits, top_k = 2
C27_Witness ==
    /\ HybridReturned /\ ~semantic_search /\ rrf_k = 1 /\ top_k = 2
    /\ Len(KwKeys) = 3 /\ NoRepeats(KwKeys)
    /\ Len(result.items) = 2
    /\ result.items[2].relevance_score = <<1, 3>>

\* the sum of 1/(k + r) over the positions r of key in seq
RECURSIVE SumTerms(_, _, _)
SumTerms(seq, key, k) ==
    IF seq = <<>> THEN Zero
    ELSE LET rest == SumTerms(SubSeq(seq, 1, Len(seq) - 1), key, k)
         IN IF seq[Len(seq)] = key THEN RAdd(rest, Ratio(1, k + Len(seq))) ELSE rest

Positive(score) == IF RGt(score, Zero) THEN score ELSE None

\* C28: the items a hybrid search returns have pairwise distinct keys, also
\* when a key occurs more than once in a source list; each of its positions r
\* in a list adds 1/(rrf_k + r) to that list's score of the one fused item.
C28_OneItemPerKey ==
    HybridReturned =>
        /\ NoRepeats(KeyList(result.items))
        /\ \A i \in 1..Len(result.items) :
              LET item == result.items[i]
                  kw == SumTerms(KwKeys, item.key, rrf_k)
                  sem == SumTerms(SemKeys, item.key, rrf_k)
              IN /\ item.keyword_score = Positive(kw)
                 /\ item.semantic_score = Positive(sem)
                 /\ item.relevance_score = RAdd(kw, sem)

\* keyword [A, B, A] with rrf_k = 1: one A, keyword_score 1/2 + 1/4
C28_Witness ==
    /\ HybridReturned /\ rrf_k = 1
    /\ KwKeys = <<"A", "B", "A">>
    /\ Cardinality(Positions(KeyList(result.items), "A")) = 1
    /\ result.items[ResultPos("A")].keyword_score = <<3, 4>>

\* C29: for a key of the keyword list the returned item is the keyword
\* instance (its title, no snippet), also when the semantic list has the key;
\* only a key of the semantic list alone returns the semantic instance with
\* its document as snippet.
C29_KeywordInstanceKept ==
    HybridReturned =>
        \A i \in 1..Len(result.items) :
            LET item == result.items[i]
            IN IF item.key \in Range(KwKeys)
               THEN item.title = "kw-title" /\ item.snippet = None
               ELSE item.title = "sem-title" /\ item.snippet = "doc"

C29_Witness ==
    /\ HybridReturned
    /\ \E i, j \in 1..Len(result.items) :
          /\ InBoth(result.items[i].key)
          /\ result.items[i].title = "kw-title" /\ result.items[i].snippet = None
          /\ result.items[i].semantic_score # None
          /\ ~(result.items[j].key \in Range(KwKeys))
          /\ result.items[j].snippet = "doc"


\* ------------------------------------------------ claims on what is fetched
FetchesFrom(source) == {i \in 1..Len(fetches) : fetches[i].source = source}

KeywordFetchOf(limit) ==
    [source |-> "keyword", query |-> request.query, mode |-> request.keyword_mode,
     item_type |-> request.item_type, tags |-> request.tags, size |-> limit,
     offset |-> 0]

QueryOnlyFetch(n) == [source |-> "semantic", query |-> request.query, size |-> n]

OneKeywordFetch(limit) ==
    /\ Cardinality(FetchesFrom("keyword")) = 1
    /\ \A i \in FetchesFrom("keyword") : fetches[i] = KeywordFetchOf(limit)

OneSemanticFetch(n) ==
    /\ Cardinality(FetchesFrom("semantic")) = 1
    /\ \A i \in FetchesFrom("semantic") : fetches[i] = QueryOnlyFetch(n)

\* C23 as stated: a finished hybrid search(top_k = n) has issued exactly one
\* keyword fetch with limit 2n, offset 0 and the caller's query, keyword_mode,
\* item_type and tags, and, whenever a semantic collaborator is configured,
\* exactly one semantic fetch with top_k = 2n and the query only; a finished
\* keyword search has issued one keyword fetch with limit n.
C23_FetchesIssued ==
    Done =>
        /\ mode = "hybrid" =>
              /\ OneKeywordFetch(2 * top_k)
              /\ semantic_search => OneSemanticFetch(2 * top_k)
              /\ ~semantic_search => FetchesFrom("semantic") = {}
        /\ mode = "keyword" => fetches = <<KeywordFetchOf(top_k)>>

\* C23 amended: as C23, except that the semantic fetch is issued only after the
\* keyword fetch has returned: when the keyword fetch raised, the call ends
\* with no semantic fetch at all.
C23_FetchesIssuedAfterKeyword ==
    Done =>
        /\ mode = "hybrid" =>
              /\ OneKeywordFetch(2 * top_k)
              /\ (semantic_search /\ kwExc = "") => OneSemanticFetch(2 * top_k)
              /\ (~semantic_search \/ kwExc # "") => FetchesFrom("semantic") = {}
        /\ mode = "keyword" => fetches = <<KeywordFetchOf(top_k)>>

\* a filtered hybrid call that fetched from both sources and returned an item
\* only the semantic source knows
C23_Witness ==
    /\ HybridReturned
    /\ semantic_search
    /\ request # DefaultRequest
    /\ top_k = MaxTopK
    /\ Len(fetches) = 2
    /\ \E i \in 1..Len(result.items) : ~(result.items[i].key \in Range(KwKeys))


\* -------------------------------------------- claims on the missing backend
\* C21: while CHROMADB_AVAILABLE is false, constructing SemanticSearchService
\* ends in ImportError ("chromadb is required ...") with neither a client nor
\* a collection created, no instance ever exists, and so no method of the
\* service is ever called or fails.
C21_FailsFastWithoutChromadb ==
    ~CHROMADB_AVAILABLE =>
        /\ semantic_service.state # "constructed"
        /\ ~semantic_service.client
        /\ ~semantic_service.collection
        /\ semantic_service.state = "failed" =>
              /\ semantic_service.error.type = "ImportError"
              /\ semantic_service.error.msg = "chromadb is required for semantic search"
        /\ op # "semantic_search"

\* the constructor has been run without chromadb
C21_Witness ==
    /\ ~CHROMADB_AVAILABLE
    /\ semantic_service.state = "failed"
    /\ adapter_pc = "returned"


\* --------------------------------------------- claims on the fusion function
BothFused == fusion.pc = "both" /\ ~fusion.first.raised /\ ~fusion.swapped.raised

RelevanceList(items) == [i \in 1..Len(items) |-> items[i].relevance_score]

\* the fields _rrf_fusion never assigns
SameBut3(before, after) ==
    /\ Len(before) = Len(after)
    /\ \A i \in 1..Len(before) :
          /\ before[i].key = after[i].key
          /\ before[i].title = after[i].title
          /\ before[i].rank = after[i].rank
          /\ before[i].snippet = after[i].snippet

\* C25 as stated: fusing (L1, L2) and (L2, L1) with the same k and top_k
\* returns the same keys in the same order with the same relevance_score per
\* key, and neither list handed to the fusion has any field of any item
\* changed.
C25_PureAndCommutative ==
    BothFused =>
        /\ KeyList(fusion.first.fused) = KeyList(fusion.swapped.fused)
        /\ RelevanceList(fusion.first.fused) = RelevanceList(fusion.swapped.fused)
        /\ fusion.first.keyword_after = fusion.keyword_results
        /\ fusion.first.semantic_after = fusion.semantic_results

\* C25 amended: swapping the two lists leaves the sequence of relevance
\* scores and the relevance score of every key unchanged, and a call raises
\* exactly when the swapped call raises; the order of keys with equal scores
\* may differ. Fusion assigns only keyword_score, semantic_score and
\* relevance_score of items in its lists: key, title, rank and snippet of
\* every item, and every item that is a repeat of an earlier key, stay as
\* they were.
C25_SymmetricScores ==
    fusion.pc = "both" =>
        /\ fusion.first.raised = fusion.swapped.raised
        /\ RelevanceList(fusion.first.fused) = RelevanceList(fusion.swapped.fused)
        /\ \A i \in 1..Len(fusion.first.fused), j \in 1..Len(fusion.swapped.fused) :
              fusion.first.fused[i].key = fusion.swapped.fused[j].key =>
                  fusion.first.fused[i].relevance_score
                      = fusion.swapped.fused[j].relevance_score
        /\ SameBut3(fusion.keyword_results, fusion.first.keyword_after)
        /\ SameBut3(fusion.semantic_results, fusion.first.semantic_after)
        /\ \A i \in 1..Len(fusion.keyword_results) :
              ~FirstOfKey(fusion.keyword_results, i) =>
                  fusion.first.keyword_after[i] = fusion.keyword_results[i]

\* two lists whose fusion is ordered by the argument order and overwrites
\* a score of an item it was given
C25_Witness ==
    /\ BothFused
    /\ Len(fusion.first.fused) = 2
    /\ KeyList(fusion.first.fused) # KeyList(fusion.swapped.fused)
    /\ fusion.first.keyword_after # fusion.keyword_results
    /\ fusion.first.semantic_after # fusion.semantic_results


\* ------------------------------------------------ claims on concurrent calls
\* the frame of each of the two calls, running or suspended
CallFrame(c) ==
    IF running.call = c
    THEN [pc |-> pc, mode |-> mode, outcome |-> outcome, result |-> result,
          error |-> error]
    ELSE [pc |-> other.pc, mode |-> other.mode, outcome |-> other.outcome,
          result |-> other.result, error |-> other.error]

SameAsAlone ==
    (calls = 2 /\ CallFrame(1).pc = "done") =>
        /\ CallFrame(1).outcome = previous.outcome
        /\ CallFrame(1).result = previous.result
        /\ CallFrame(1).error = previous.error

\* C26: a search() call interleaved at its awaits with another search() on
\* the same service ends as it ended when it ran alone with the same
\* responses, and no step of any call changes semantic_search or rrf_k of
\* the service.
C26_ConcurrentCallsIsolated ==
    /\ []SameAsAlone
    /\ [][semantic_search' = semantic_search /\ rrf_k' = rrf_k]_vars

\* both calls were in flight at once, both returned items, and they differ
C26_Witness ==
    /\ calls = 2 /\ running.overlapped
    /\ CallFrame(1).pc = "done" /\ CallFrame(2).pc = "done"
    /\ CallFrame(1).outcome = "returned" /\ CallFrame(2).outcome = "returned"
    /\ CallFrame(2).mode = "hybrid"
    /\ Len(CallFrame(1).result.items) >= 2
    /\ Len(CallFrame(2).result.items) >= 1
    /\ CallFrame(1).result # CallFrame(2).result


\* ------------------------------------------------ claims on scan_collections
\* C30: the "processed" total scan_collections returns is at most
\* treated_limit; no batch is requested once the running processed total has
\* reached treated_limit; and a further batch of a collection is requested
\* only after a full batch, so that an empty or short batch ends the
\* collection.
C30_TreatedLimitIsMaximum ==
    /\ scan.pc = "done" => scan.returned.processed <= scan.treated_limit
    /\ scan.pc = "items" => scan.total_processed + scan.processed < scan.treated_limit
    /\ (scan.pc = "items" /\ scan.offset > 0) => scan.batch = scan.scan_limit

====
